---- MODULE Spec2Model ----
(***************************************************************************)
(* Model of client/src/pages/subscribe.tsx: the Subscribe page.  The page  *)
(* holds two pieces of React state (isLoading, error), runs an SEO effect  *)
(* once per mount, and runs a checkout effect on mount and whenever one of *)
(* its dependencies (session.isAuthenticated, navigate, tier,              *)
(* isStripeAvailable) changes.  The checkout effect starts an asynchronous *)
(* request (createSubscription) whose settlement is a separate step.       *)
(***************************************************************************)
EXTENDS Integers, Sequences, FiniteSets

VARIABLES
    env,               \* import.meta.env.VITE_STRIPE_PUBLIC_KEY
    isStripeAvailable, \* module constant, computed once when the module loads
    session,           \* session.isAuthenticated, owned by UserContext
    search,            \* query string, a sequence of <<key, value>> pairs
    mounted,           \* is a Subscribe instance mounted
    mountId,           \* which instance (counts the mounts so far)
    isLoading,         \* useState(true) of the current instance
    error,             \* useState<string | null>(null) of the current instance
    pending,           \* createSubscription requests issued and not yet settled
    href,              \* window.location.href
    route,             \* in-app route last set through navigate(path)
    homeCalls,         \* navigate("/") calls made by the checkout effect of the current instance
    effectRuns,        \* executions of the checkout effect in the current instance
    effectLog,         \* the steps of the checkout effect executed by the last step, if any
    seoRuns,           \* executions of the SEO effect in the current instance
    doc,               \* the document: title, description meta, head, schema nodes
    settled,           \* the settlement made by the last step, if any
    unhandled,         \* promise rejections that escaped setupSubscription
    everAuth,          \* the current instance has rendered with an authenticated session
    sawUnauth          \* the current instance has rendered with an unauthenticated session

vars == <<env, isStripeAvailable, session, search, mounted, mountId,
          isLoading, error, pending, href, route, homeCalls, effectRuns,
          effectLog, seoRuns, doc, settled, unhandled, everAuth, sawUnauth>>

----------------------------------------------------------------------------
(* Bounds of the model *)

MaxMounts == 2
MaxEffectRuns == 2
MaxPending == 2

----------------------------------------------------------------------------
(* JavaScript values *)

Null == [t |-> "null"]
Undefined == [t |-> "undefined"]
Str(s) == [t |-> "string", v |-> s]
Err(m) == [t |-> "error", message |-> m]
Obj(u) == [t |-> "object", hasUrl |-> TRUE, url |-> u]
EmptyObj == [t |-> "object", hasUrl |-> FALSE, url |-> Undefined]

TruthyIfString(v) == v.t = "string"

\* JavaScript truthiness of null, undefined and strings
Truthy(v) == v.t = "string" /\ v.v # ""

\* property read o.url: a missing property reads as undefined
GetUrl(o) == IF o.hasUrl THEN o.url ELSE Undefined

----------------------------------------------------------------------------
(* Provider availability: const isStripeAvailable = !!import.meta.env.KEY *)

EnvValues == {Undefined, Str(""), Str("pk_test_123")}

StripeAvailableOf(e) == Truthy(e)

----------------------------------------------------------------------------
(* Tier parsing *)

Basic == "basic"
Pro == "pro"
Power == "power"
SubscriptionTierValues == {Basic, Pro, Power}

Searches ==
    { <<>>,
      << <<"tier", "">> >>,
      << <<"tier", "bogus">> >>,
      << <<"plan", "x">>, <<"tier", "pro">>, <<"tier", "basic">> >> }

\* URLSearchParams.get(name): the first value stored under name, else null
RECURSIVE ParamsGet(_, _)
ParamsGet(s, name) ==
    IF s = <<>> THEN Null
    ELSE IF Head(s)[1] = name THEN Str(Head(s)[2])
    ELSE ParamsGet(Tail(s), name)

\* params.get("tier") as SubscriptionTier || SubscriptionTier.Basic
\* (the cast has no run-time effect)
TierOf(s) ==
    LET p == ParamsGet(s, "tier")
    IN  IF Truthy(p) THEN p.v ELSE Basic

----------------------------------------------------------------------------
(* Rendering *)

SetStateIgnoringInstance(live, cur, new) == new

\* the state setters returned by useState act on the instance that created
\* them; on an instance that is no longer mounted they change nothing
SetState(live, cur, new) == IF live THEN new ELSE cur

RenderLatchedEmpty(m, a, l, e) ==
    IF ~m THEN [kind |-> "Unmounted", message |-> Null]
    ELSE IF ~a \/ sawUnauth THEN [kind |-> "Empty", message |-> Null]
    ELSE IF l THEN [kind |-> "Loading", message |-> Null]
    ELSE IF Truthy(e) THEN [kind |-> "Error", message |-> e]
    ELSE [kind |-> "Redirecting", message |-> Null]

Render(m, a, l, e) ==
    IF ~m THEN [kind |-> "Unmounted", message |-> Null]
    ELSE IF ~a THEN [kind |-> "Empty", message |-> Null]
    ELSE IF l THEN [kind |-> "Loading", message |-> Null]
    ELSE IF Truthy(e) THEN [kind |-> "Error", message |-> e]
    ELSE [kind |-> "Redirecting", message |-> Null]

View == Render(mounted, session, isLoading, error)

----------------------------------------------------------------------------
(* The SEO effect: useEffect(() => {...}, []) *)

PageTitle == "Upgrade Your Plan - AI LaTeX Generator"
PageDescription == "Upgrade your AI LaTeX Generator subscription plan. Choose from Basic, Pro, and Power plans to unlock more document generations per month."

\* the elements carrying id="subscription-schema" are kept by tag name, in
\* document order: those under head, then those elsewhere in the document
RECURSIVE RemoveFirstScript(_)
RemoveFirstScript(kids) ==
    IF kids = <<>> THEN <<>>
    ELSE IF Head(kids) = "script" THEN Tail(kids)
    ELSE <<Head(kids)>> \o RemoveFirstScript(Tail(kids))

HasScript(kids) == \E i \in 1..Len(kids) : kids[i] = "script"

KeepExistingSchema(d) == d

\* document.querySelector('script#subscription-schema') followed by remove()
RemoveExistingSchema(d) ==
    IF HasScript(d.headKids)
    THEN [d EXCEPT !.headKids = RemoveFirstScript(@)]
    ELSE [d EXCEPT !.bodyKids = RemoveFirstScript(@)]

\* calls setAttribute on the result of the query without testing it
SeoReceiversUnguarded(d) ==
    LET metaDescription == d.meta
        head == IF d.hasHead THEN Str("head") ELSE Null
        existingSchema == IF HasScript(d.headKids) \/ HasScript(d.bodyKids)
                          THEN Str("script") ELSE Null
    IN  <<metaDescription>>
        \o (IF head # Null
            THEN (IF existingSchema # Null THEN <<existingSchema>> ELSE <<>>) \o <<head>>
            ELSE <<>>)

\* the results of document.querySelector (a node or null) on which the
\* effect calls a method, in order: setAttribute, remove, appendChild
SeoReceivers(d) ==
    LET metaDescription == d.meta
        head == IF d.hasHead THEN Str("head") ELSE Null
        existingSchema == IF HasScript(d.headKids) \/ HasScript(d.bodyKids)
                          THEN Str("script") ELSE Null
    IN  (IF metaDescription # Null THEN <<metaDescription>> ELSE <<>>)
        \o (IF head # Null
            THEN (IF existingSchema # Null THEN <<existingSchema>> ELSE <<>>) \o <<head>>
            ELSE <<>>)

SeoEffect(d) ==
    LET d1 == [d EXCEPT !.title = PageTitle]
        d2 == IF d1.meta # Null THEN [d1 EXCEPT !.meta = Str(PageDescription)] ELSE d1
    IN  IF d2.hasHead
        THEN LET d3 == RemoveExistingSchema(d2)
             IN  [d3 EXCEPT !.headKids = Append(@, "script")]
        ELSE d2

SchemaScripts(d) ==
    Cardinality({i \in 1..Len(d.headKids) : d.headKids[i] = "script"})
    + Cardinality({i \in 1..Len(d.bodyKids) : d.bodyKids[i] = "script"})

SchemaElements(d) == Len(d.headKids) + Len(d.bodyKids)

----------------------------------------------------------------------------
(* The checkout effect: useEffect(() => {...},                             *)
(*   [session.isAuthenticated, navigate, tier, isStripeAvailable])         *)

ProviderMessage == "Payment system is not configured. Please contact the administrator."
NoUrlMessage == "Failed to create checkout session"
FallbackMessage == "Failed to create subscription"
\* message of the TypeError raised by destructuring null or undefined
DestructureMessage == "Cannot destructure property 'url' of null or undefined"

\* the part of the state the checkout effect reads and writes
Comp == [isLoading |-> isLoading, error |-> error, pending |-> pending,
         route |-> route, homeCalls |-> homeCalls,
         effectRuns |-> effectRuns, effectLog |-> effectLog]

\* a freshly mounted instance: useState(true), useState(null)
FreshComp == [Comp EXCEPT !.isLoading = TRUE, !.error = Null,
                          !.homeCalls = 0, !.effectRuns = 0, !.effectLog = <<>>]

NewRequest(c, s, mid) ==
    [tier |-> TierOf(s), param |-> ParamsGet(s, "tier"), mount |-> mid,
     run |-> c.effectRuns + 1]

\* navigates home on the first execution only
CheckoutEffectNavigateOnce(c, a, s, avail, mid) ==
    LET c0 == [c EXCEPT !.effectRuns = @ + 1]
    IN  IF ~a
        THEN IF c.homeCalls = 0
             THEN [c0 EXCEPT !.route = "/", !.homeCalls = @ + 1,
                             !.effectLog = <<"guard", "navigate">>]
             ELSE [c0 EXCEPT !.effectLog = <<"guard">>]
        ELSE IF ~avail
        THEN [c0 EXCEPT !.error = Str(ProviderMessage), !.isLoading = FALSE,
                        !.effectLog = <<"guard", "providerCheck", "setError", "setIsLoading">>]
        ELSE [c0 EXCEPT !.pending = @ \cup {NewRequest(c, s, mid)},
                        !.effectLog = <<"guard", "providerCheck", "createSubscription">>]

\* starts the request before looking at the provider flag
CheckoutEffectRequestFirst(c, a, s, avail, mid) ==
    LET c0 == [c EXCEPT !.effectRuns = @ + 1]
    IN  IF ~a
        THEN [c0 EXCEPT !.route = "/", !.homeCalls = @ + 1,
                        !.effectLog = <<"guard", "navigate">>]
        ELSE IF ~avail
        THEN [c0 EXCEPT !.pending = @ \cup {NewRequest(c, s, mid)},
                        !.error = Str(ProviderMessage), !.isLoading = FALSE,
                        !.effectLog = <<"guard", "createSubscription", "providerCheck",
                                        "setError", "setIsLoading">>]
        ELSE [c0 EXCEPT !.pending = @ \cup {NewRequest(c, s, mid)},
                        !.effectLog = <<"guard", "createSubscription", "providerCheck">>]

\* issues the request a second time right away
CheckoutEffectRequestTwice(c, a, s, avail, mid) ==
    LET c0 == [c EXCEPT !.effectRuns = @ + 1]
    IN  IF ~a
        THEN [c0 EXCEPT !.route = "/", !.homeCalls = @ + 1,
                        !.effectLog = <<"guard", "navigate">>]
        ELSE IF ~avail
        THEN [c0 EXCEPT !.error = Str(ProviderMessage), !.isLoading = FALSE,
                        !.effectLog = <<"guard", "providerCheck", "setError", "setIsLoading">>]
        ELSE [c0 EXCEPT !.pending = @ \cup {NewRequest(c, s, mid),
                                            [NewRequest(c, s, mid) EXCEPT !.tier = "retry"]},
                        !.effectLog = <<"guard", "providerCheck", "createSubscription",
                                        "createSubscription">>]

\* the provider branch stores the message and leaves isLoading alone
CheckoutEffectErrorOnly(c, a, s, avail, mid) ==
    LET c0 == [c EXCEPT !.effectRuns = @ + 1]
    IN  IF ~a
        THEN [c0 EXCEPT !.route = "/", !.homeCalls = @ + 1,
                        !.effectLog = <<"guard", "navigate">>]
        ELSE IF ~avail
        THEN [c0 EXCEPT !.error = Str(ProviderMessage),
                        !.effectLog = <<"guard", "providerCheck", "setError">>]
        ELSE [c0 EXCEPT !.pending = @ \cup {NewRequest(c, s, mid)},
                        !.effectLog = <<"guard", "providerCheck", "createSubscription">>]

\* the access guard navigates home and goes on instead of returning
CheckoutEffectGuardFallsThrough(c, a, s, avail, mid) ==
    LET c0 == [c EXCEPT !.effectRuns = @ + 1]
        c1 == IF ~a THEN [c0 EXCEPT !.route = "/", !.homeCalls = @ + 1] ELSE c0
    IN  IF ~avail
        THEN [c1 EXCEPT !.error = Str(ProviderMessage), !.isLoading = FALSE,
                        !.effectLog = <<"guard", "providerCheck", "setError", "setIsLoading">>]
        ELSE [c1 EXCEPT !.pending = @ \cup {NewRequest(c, s, mid)},
                        !.effectLog = <<"guard", "providerCheck", "createSubscription">>]

\* the synchronous part of one execution of the effect, up to the await:
\* c the instance state, a session.isAuthenticated, s the query string,
\* avail the provider flag, mid the instance
CheckoutEffect(c, a, s, avail, mid) ==
    LET c0 == [c EXCEPT !.effectRuns = @ + 1]
    IN  IF ~a
        THEN [c0 EXCEPT !.route = "/", !.homeCalls = @ + 1,
                        !.effectLog = <<"guard", "navigate">>]
        ELSE IF ~avail
        THEN [c0 EXCEPT !.error = Str(ProviderMessage), !.isLoading = FALSE,
                        !.effectLog = <<"guard", "providerCheck", "setError", "setIsLoading">>]
        ELSE [c0 EXCEPT !.pending = @ \cup {NewRequest(c, s, mid)},
                        !.effectLog = <<"guard", "providerCheck", "createSubscription">>]

ApplyComp(c) ==
    /\ isLoading' = c.isLoading
    /\ error' = c.error
    /\ pending' = c.pending
    /\ route' = c.route
    /\ homeCalls' = c.homeCalls
    /\ effectRuns' = c.effectRuns
    /\ effectLog' = c.effectLog

----------------------------------------------------------------------------
(* Settlement of the awaited createSubscription(tier) *)

CheckoutUrls == {"https://pay.example/session/abc", "https://pay.example/session/xyz"}

Outcomes ==
    {[kind |-> "resolve", value |-> Obj(Str(u))] : u \in CheckoutUrls}
    \cup {[kind |-> "resolve", value |-> v] :
            v \in {Obj(Str("")), Obj(Null), Obj(Undefined), EmptyObj, Null, Undefined}}
    \cup {[kind |-> "reject", value |-> v] :
            v \in {Err("card declined"), Err(""), Str("boom"), Undefined}}

NoUpdate == [assign |-> FALSE, url |-> "", sets |-> FALSE, error |-> Null,
             logged |-> FALSE, escaped |-> FALSE]

\* catch (err) { console.error(...); setError(...); setIsLoading(false); }
Catch(err) ==
    [NoUpdate EXCEPT !.sets = TRUE, !.logged = TRUE,
                     !.error = IF err.t = "error" THEN Str(err.message)
                               ELSE Str(FallbackMessage)]

\* the success branch also leaves the Loading state
ResumeSuccessStopsLoading(o) ==
    IF o.kind = "resolve"
    THEN IF o.value.t \in {"null", "undefined"}
         THEN Catch(Err(DestructureMessage))
         ELSE LET url == GetUrl(o.value)
              IN  IF Truthy(url)
                  THEN [NoUpdate EXCEPT !.assign = TRUE, !.url = url.v, !.sets = TRUE]
                  ELSE [NoUpdate EXCEPT !.sets = TRUE, !.error = Str(NoUrlMessage)]
    ELSE Catch(o.value)

\* the rest of setupSubscription once the awaited promise has settled with o
SetupSubscriptionResume(o) ==
    IF o.kind = "resolve"
    THEN IF o.value.t \in {"null", "undefined"}
         THEN Catch(Err(DestructureMessage))
         ELSE LET url == GetUrl(o.value)
              IN  IF Truthy(url)
                  THEN [NoUpdate EXCEPT !.assign = TRUE, !.url = url.v]
                  ELSE [NoUpdate EXCEPT !.sets = TRUE, !.error = Str(NoUrlMessage)]
    ELSE Catch(o.value)

----------------------------------------------------------------------------
(* Initial state: the module has been loaded, no instance is mounted yet *)

AppUrl == "https://app.example/subscribe"

NoSettlement == [req |-> Null, outcome |-> [kind |-> "none", value |-> Null], live |-> FALSE]

\* documents before the first mount: with or without a head, with or without
\* a description meta tag, and with at most one element whose id is
\* subscription-schema
InitialDocs ==
    { [title |-> "AI LaTeX Generator", meta |-> m, hasHead |-> h,
       headKids |-> hk, bodyKids |-> bk] :
        m \in {Null, Str("old description")}, h \in BOOLEAN,
        hk \in {<<>>, <<"script">>, <<"div">>},
        bk \in {<<>>, <<"script">>, <<"div">>} }

Init ==
    /\ env \in EnvValues
    /\ isStripeAvailable = StripeAvailableOf(env)
    /\ session \in BOOLEAN
    /\ search \in Searches
    /\ mounted = FALSE
    /\ mountId = 0
    /\ isLoading = TRUE
    /\ error = Null
    /\ pending = {}
    /\ href = AppUrl
    /\ route = "/subscribe"
    /\ homeCalls = 0
    /\ effectRuns = 0
    /\ effectLog = <<>>
    /\ seoRuns = 0
    /\ doc \in {d \in InitialDocs :
                    /\ Len(d.headKids) + Len(d.bodyKids) <= 1
                    /\ (~d.hasHead => d.headKids = <<>>)}
    /\ settled = NoSettlement
    /\ unhandled = 0
    /\ everAuth = FALSE
    /\ sawUnauth = FALSE

----------------------------------------------------------------------------
(* Actions *)

\* the route renders <Subscribe/>: first render, then both effects in order
Mount ==
    /\ ~mounted
    /\ mountId < MaxMounts
    /\ Cardinality(pending) < MaxPending
    /\ mounted' = TRUE
    /\ mountId' = mountId + 1
    /\ everAuth' = session
    /\ sawUnauth' = ~session
    /\ seoRuns' = 1
    /\ doc' = SeoEffect(doc)
    /\ ApplyComp(CheckoutEffect(FreshComp, session, search, isStripeAvailable, mountId + 1))
    /\ settled' = NoSettlement
    /\ UNCHANGED <<env, isStripeAvailable, session, search, href, unhandled>>

\* the route stops rendering <Subscribe/>: the instance and its state are
\* discarded; neither effect has a cleanup, so the requests stay in flight
Unmount ==
    /\ mounted
    /\ mounted' = FALSE
    /\ isLoading' = TRUE
    /\ error' = Null
    /\ homeCalls' = 0
    /\ effectRuns' = 0
    /\ seoRuns' = 0
    /\ everAuth' = FALSE
    /\ sawUnauth' = FALSE
    /\ effectLog' = <<>>
    /\ settled' = NoSettlement
    /\ UNCHANGED <<env, isStripeAvailable, session, search, mountId,
                   pending, href, route, doc, unhandled>>

\* also re-executes the SEO effect, as if session were among its dependencies
SessionChangeRerunsSeo ==
    /\ session' = ~session
    /\ IF mounted
       THEN /\ effectRuns < MaxEffectRuns
            /\ Cardinality(pending) < MaxPending
            /\ everAuth' = (everAuth \/ session')
            /\ sawUnauth' = (sawUnauth \/ ~session')
            /\ seoRuns' = seoRuns + 1
            /\ doc' = SeoEffect(doc)
            /\ ApplyComp(CheckoutEffect(Comp, session', search, isStripeAvailable, mountId))
       ELSE /\ effectLog' = <<>>
            /\ UNCHANGED <<everAuth, sawUnauth, isLoading, error, pending,
                           route, homeCalls, effectRuns, seoRuns, doc>>
    /\ settled' = NoSettlement
    /\ UNCHANGED <<env, isStripeAvailable, search, mounted, mountId,
                   href, unhandled>>

\* the session provider flips isAuthenticated; a mounted instance re-renders
\* and, the dependency having changed, re-executes the checkout effect
SessionChange ==
    /\ session' = ~session
    /\ IF mounted
       THEN /\ effectRuns < MaxEffectRuns
            /\ Cardinality(pending) < MaxPending
            /\ everAuth' = (everAuth \/ session')
            /\ sawUnauth' = (sawUnauth \/ ~session')
            /\ ApplyComp(CheckoutEffect(Comp, session', search, isStripeAvailable, mountId))
       ELSE /\ effectLog' = <<>>
            /\ UNCHANGED <<everAuth, sawUnauth, isLoading, error, pending,
                           route, homeCalls, effectRuns>>
    /\ settled' = NoSettlement
    /\ UNCHANGED <<env, isStripeAvailable, search, mounted, mountId,
                   href, seoRuns, doc, unhandled>>

\* the query string changes; a mounted instance re-renders and re-executes
\* the checkout effect when the tier derived from it differs
SearchChange(s) ==
    /\ s # search
    /\ search' = s
    /\ IF mounted /\ TierOf(s) # TierOf(search)
       THEN /\ effectRuns < MaxEffectRuns
            /\ Cardinality(pending) < MaxPending
            /\ ApplyComp(CheckoutEffect(Comp, session, s, isStripeAvailable, mountId))
       ELSE /\ effectLog' = <<>>
            /\ UNCHANGED <<isLoading, error, pending, route, homeCalls, effectRuns>>
    /\ settled' = NoSettlement
    /\ UNCHANGED <<env, isStripeAvailable, session, mounted, mountId,
                   href, seoRuns, doc, unhandled, everAuth, sawUnauth>>

\* useLocation hands the mounted instance a navigate handle of a new
\* identity: the instance re-renders and re-executes the checkout effect
NavigateChange ==
    /\ mounted
    /\ effectRuns < MaxEffectRuns
    /\ Cardinality(pending) < MaxPending
    /\ ApplyComp(CheckoutEffect(Comp, session, search, isStripeAvailable, mountId))
    /\ settled' = NoSettlement
    /\ UNCHANGED <<env, isStripeAvailable, session, search, mounted, mountId,
                   href, seoRuns, doc, unhandled, everAuth, sawUnauth>>

\* the promise of request q settles with outcome o and setupSubscription
\* resumes after its await
Settle(q, o) ==
    /\ q \in pending
    /\ LET r == SetupSubscriptionResume(o)
           live == mounted /\ q.mount = mountId
       IN  /\ href' = IF r.assign THEN r.url ELSE href
           /\ error' = IF r.sets THEN SetState(live, error, r.error) ELSE error
           /\ isLoading' = IF r.sets THEN SetState(live, isLoading, FALSE) ELSE isLoading
           /\ unhandled' = IF r.escaped THEN unhandled + 1 ELSE unhandled
           /\ settled' = [req |-> q, outcome |-> o, live |-> live]
    /\ pending' = pending \ {q}
    /\ effectLog' = <<>>
    /\ UNCHANGED <<env, isStripeAvailable, session, search, mounted,
                   mountId, route, homeCalls, effectRuns,
                   seoRuns, doc, everAuth, sawUnauth>>

\* <Button onClick={() => navigate("/")}> of the Error view
ClickReturnHome ==
    /\ View.kind = "Error"
    /\ route' = "/"
    /\ effectLog' = <<>>
    /\ settled' = NoSettlement
    /\ UNCHANGED <<env, isStripeAvailable, session, search, mounted,
                   mountId, isLoading, error, pending, href, homeCalls, effectRuns,
                   seoRuns, doc, unhandled, everAuth, sawUnauth>>

\* <Button onClick={() => navigate("/account")}> of the fallback view
ClickReturnAccount ==
    /\ View.kind = "Redirecting"
    /\ route' = "/account"
    /\ effectLog' = <<>>
    /\ settled' = NoSettlement
    /\ UNCHANGED <<env, isStripeAvailable, session, search, mounted,
                   mountId, isLoading, error, pending, href, homeCalls,
                   effectRuns, seoRuns, doc, unhandled, everAuth, sawUnauth>>

Next ==
    \/ Mount
    \/ Unmount
    \/ SessionChange
    \/ \E s \in Searches : SearchChange(s)
    \/ NavigateChange
    \/ \E q \in pending : \E o \in Outcomes : Settle(q, o)
    \/ ClickReturnHome
    \/ ClickReturnAccount

\* the flow of the page in a document with a head, a description meta tag
\* and no structured-data node yet
StandardDoc ==
    [title |-> "AI LaTeX Generator", meta |-> Str("old description"),
     hasHead |-> TRUE, headKids |-> <<>>, bodyKids |-> <<>>]

InitFlow == Init /\ doc = StandardDoc

Spec == InitFlow /\ [][Next]_vars

\* the page of a deployment without a payment key, over every initial
\* document: no request is ever issued, so no settlement takes place
NextSeo ==
    \/ Mount
    \/ Unmount
    \/ SessionChange
    \/ \E s \in Searches : SearchChange(s)
    \/ NavigateChange
    \/ ClickReturnHome

InitSeo == Init /\ ~isStripeAvailable

SpecSeo == InitSeo /\ [][NextSeo]_vars

\* the configuration value changes after the module has been loaded (a test
\* stubs the environment between two runs); the module constant was computed
\* at load time and is not computed again
EnvChange(e) ==
    /\ e # env
    /\ env' = e
    /\ effectLog' = <<>>
    /\ settled' = NoSettlement
    /\ UNCHANGED <<isStripeAvailable, session, search, mounted, mountId,
                   isLoading, error, pending, href, route, homeCalls,
                   effectRuns, seoRuns, doc, unhandled, everAuth, sawUnauth>>

NextEnv ==
    \/ Next
    \/ \E e \in EnvValues : EnvChange(e)

SpecEnv == InitFlow /\ [][NextEnv]_vars

----------------------------------------------------------------------------
(* Outcomes of the checkout request, by the case they fall in *)

ResolvedWithUrl(st) ==
    \E u \in CheckoutUrls : st.outcome = [kind |-> "resolve", value |-> Obj(Str(u))]

ResolvedWithoutUrl(st) ==
    /\ st.outcome.kind = "resolve"
    /\ st.outcome.value \in {EmptyObj, Obj(Undefined), Obj(Null), Obj(Str(""))}

ResolvedWithNothing(st) ==
    /\ st.outcome.kind = "resolve"
    /\ st.outcome.value \in {Null, Undefined}

Rejected(st) == st.outcome.kind = "reject"

Failed(st) == Rejected(st) \/ ResolvedWithoutUrl(st) \/ ResolvedWithNothing(st)

\* the last step executed the checkout effect
EffectRan == effectLog # <<>>

Position(log, step) ==
    IF \E i \in 1..Len(log) : log[i] = step
    THEN CHOOSE i \in 1..Len(log) : log[i] = step /\ \A j \in 1..(i - 1) : log[j] # step
    ELSE 0

\* the request issued by the current execution of the effect, if any
IssuedNow == {q \in pending : q.mount = mountId /\ q.run = effectRuns}

----------------------------------------------------------------------------
(* C1 *)

\* C1 as stated: in a mount whose session has been unauthenticated
\* throughout, the view is empty and navigate("/") has been called exactly
\* once, however often the effect was re-executed
C1_NavigatesHomeExactlyOnce ==
    (mounted /\ ~everAuth) => (View.kind = "Empty" /\ homeCalls = 1)

\* C1 amended: in a mount whose session has been unauthenticated throughout,
\* the view is empty, no error state is set, and navigate("/") has been
\* called once by each execution of the checkout effect, so at least once
C1_NavigatesHomeOncePerExecution ==
    (mounted /\ ~everAuth) =>
        /\ View = [kind |-> "Empty", message |-> Null]
        /\ error = Null
        /\ isLoading
        /\ effectRuns >= 1
        /\ homeCalls = effectRuns
        /\ route = "/"

C1_Witness ==
    /\ mounted
    /\ ~everAuth
    /\ effectRuns = 2
    /\ homeCalls = 2
    /\ View.kind = "Empty"

----------------------------------------------------------------------------
(* C2 *)

\* C2: an execution of the checkout effect calls createSubscription only
\* after it has evaluated the provider check and found it true; with the
\* provider flag false and the session authenticated the execution ends with
\* the configuration message, isLoading false and no request issued
C2_ProviderCheckedBeforeRequest ==
    EffectRan =>
        /\ (Position(effectLog, "createSubscription") > 0) <=> (IssuedNow # {})
        /\ (Position(effectLog, "createSubscription") > 0) =>
                /\ isStripeAvailable
                /\ Position(effectLog, "providerCheck") > 0
                /\ Position(effectLog, "providerCheck") < Position(effectLog, "createSubscription")
        /\ (session /\ ~isStripeAvailable) =>
                /\ error = Str(ProviderMessage)
                /\ ~isLoading
                /\ pending = {}

C2_Witness ==
    /\ EffectRan
    /\ session
    /\ ~isStripeAvailable
    /\ effectRuns = 2
    /\ error = Str(ProviderMessage)
    /\ View.kind = "Error"

----------------------------------------------------------------------------
(* C3 *)

\* C3: every request carries the Pro tier when the tier parameter is "pro",
\* and the Basic tier when the parameter is absent, empty or not a
\* SubscriptionTier value
C3_TierParsedOrBasic ==
    \A q \in pending :
        /\ (q.param = Str("pro")) => (q.tier = Pro)
        /\ (q.param = Null \/ q.param = Str("")) => (q.tier = Basic)
        /\ (q.param.t = "string" /\ q.param.v \notin SubscriptionTierValues) => (q.tier = Basic)

----------------------------------------------------------------------------
(* C4 *)

\* C4: a settlement that resolves with a non-empty url sets the browser
\* location to exactly that url and leaves error and isLoading as they were
C4_SuccessSetsLocationOnly ==
    [][ResolvedWithUrl(settled') =>
            /\ href' = settled'.outcome.value.url.v
            /\ error' = error
            /\ isLoading' = isLoading]_vars

C4_Witness ==
    /\ ResolvedWithUrl(settled)
    /\ settled.live
    /\ href = "https://pay.example/session/xyz"
    /\ View.kind = "Loading"

----------------------------------------------------------------------------
(* C5 *)

\* C5: a settlement that resolves with an object without a usable url leaves
\* the browser location alone and puts the page that issued the request in
\* the Error state with the message "Failed to create checkout session" and
\* isLoading false
C5_NoUrlIsAnError ==
    [][ResolvedWithoutUrl(settled') =>
            /\ href' = href
            /\ settled'.live =>
                    /\ error' = Str("Failed to create checkout session")
                    /\ isLoading' = FALSE
                    /\ session' =>
                          Render(mounted', session', isLoading', error')
                            = [kind |-> "Error",
                               message |-> Str("Failed to create checkout session")]]_vars

C5_Witness ==
    /\ settled.outcome = [kind |-> "resolve", value |-> Obj(Str(""))]
    /\ settled.live
    /\ href = AppUrl
    /\ View = [kind |-> "Error", message |-> Str("Failed to create checkout session")]

----------------------------------------------------------------------------
(* C6 *)

\* C6: after a rejection the page that issued the request shows the Error
\* view with the message of the Error it was rejected with, whatever that
\* string is, or with "Failed to create subscription" when the rejection
\* value is not an Error
C6_RejectionShowsMessage ==
    (Rejected(settled) /\ settled.live /\ session) =>
        View = [kind |-> "Error",
                message |-> Str(IF settled.outcome.value.t = "error"
                                THEN settled.outcome.value.message
                                ELSE "Failed to create subscription")]

----------------------------------------------------------------------------
(* C7 *)

\* C7: in a document with a head that started with at most one element of
\* id subscription-schema, after one or more executions of the SEO effect
\* there is exactly one script element with that id
C7_ExactlyOneSchemaScript ==
    (doc.hasHead /\ mountId >= 1) => SchemaScripts(doc) = 1

C7_Witness ==
    /\ doc.hasHead
    /\ mountId >= 2
    /\ SchemaScripts(doc) = 1
    /\ SchemaElements(doc) = 2

----------------------------------------------------------------------------
(* C8 *)

\* C8: when a request settles with a failure or without a url after the
\* instance that issued it was unmounted, nothing observable changes: not
\* the state and view of the instance mounted now (if any), not the browser
\* location, the route or the document, and no rejection escapes
C8_StaleFailureIsNoOp ==
    [][(Failed(settled') /\ ~settled'.live) =>
            /\ isLoading' = isLoading
            /\ error' = error
            /\ Render(mounted', session', isLoading', error') = View
            /\ href' = href
            /\ route' = route
            /\ doc' = doc
            /\ unhandled' = unhandled]_vars

C8_Witness ==
    /\ Failed(settled)
    /\ ~settled.live
    /\ mounted
    /\ settled.req.mount < mountId
    /\ View.kind = "Loading"

----------------------------------------------------------------------------
(* C9 *)

\* C9: every failure of the checkout call (rejection with an Error or with
\* another value, resolution without a url, resolution with null or
\* undefined) is turned into the Error view of the page that issued it, with
\* isLoading false, and none escapes as an unhandled rejection
C9_FailureBecomesErrorView ==
    /\ unhandled = 0
    /\ (Failed(settled) /\ settled.live) =>
            /\ ~isLoading
            /\ error # Null
            /\ session => View.kind = "Error"

----------------------------------------------------------------------------
(* C10 *)

\* C10 as stated: once the instance has rendered with an unauthenticated
\* session, its view is empty for as long as it stays mounted
C10_EmptyForRestOfMount ==
    (mounted /\ sawUnauth) => View.kind = "Empty"

\* C10 amended: a mounted instance renders the empty view exactly while the
\* session is unauthenticated; when the session becomes authenticated again
\* the checkout effect is re-executed and the instance renders Loading,
\* Error or the fallback view again
C10_EmptyWhileUnauthenticated ==
    mounted =>
        /\ (View.kind = "Empty") <=> ~session
        /\ (sawUnauth /\ session) =>
                /\ View.kind \in {"Loading", "Error", "Redirecting"}
                /\ effectRuns >= 2

C10_Witness ==
    /\ mounted
    /\ sawUnauth
    /\ session
    /\ View.kind = "Loading"
    /\ pending # {}

----------------------------------------------------------------------------
(* The view state machine: what isLoading and error select, apart from the  *)
(* access guard                                                            *)

ViewStateOf(l, e) == Render(TRUE, TRUE, l, e)

ViewState == ViewStateOf(isLoading, error)

\* the step stays within one mounted instance
SameMount == mounted /\ mounted' /\ mountId' = mountId

----------------------------------------------------------------------------
(* C11 *)

\* C11: within one mount the view state never returns to Loading once it
\* has left it, never changes once it is Error(m) or Redirecting, and every
\* settlement of a request of the mounted instance that finds it in Loading
\* moves it to Error or to Redirecting
C11_ViewStateOneDirectional ==
    [][SameMount =>
            /\ (ViewState.kind # "Loading") =>
                    (ViewStateOf(isLoading', error').kind # "Loading")
            /\ (ViewState.kind \in {"Error", "Redirecting"}) =>
                    (ViewStateOf(isLoading', error') = ViewState)
            /\ (settled' # NoSettlement /\ settled'.live /\ ViewState.kind = "Loading") =>
                    (ViewStateOf(isLoading', error').kind \in {"Error", "Redirecting"})]_vars

----------------------------------------------------------------------------
(* C12 *)

\* C12: whenever the page is mounted, the session is authenticated and a
\* request of the mounted instance is pending, the rendered view is Loading
C12_LoadingWhilePending ==
    (mounted /\ session /\ (\E q \in pending : q.mount = mountId)) =>
        View.kind = "Loading"

----------------------------------------------------------------------------
(* C13 *)

\* C13: after a request of the mounted instance has resolved with a
\* non-empty url, the view state is Redirecting and an authenticated page
\* renders the fallback view, no longer the Loading view
C13_SuccessEntersRedirecting ==
    (ResolvedWithUrl(settled) /\ settled.live) =>
        /\ ViewState.kind = "Redirecting"
        /\ session => View.kind = "Redirecting"

----------------------------------------------------------------------------
(* C14 *)

\* C14: a step issues at most one request, and only as part of an execution
\* of the checkout effect (on mount or on a dependency change), which gives
\* the request its own execution number; a settlement, failed or not, only
\* removes the settled request and issues none
C14_OneRequestPerExecution ==
    [][/\ Cardinality(pending' \ pending) <= 1
       /\ (pending' \ pending # {}) =>
                /\ effectLog' # <<>>
                /\ settled' = NoSettlement
                /\ effectRuns' # effectRuns \/ mountId' # mountId
                /\ \A q \in pending' \ pending :
                        q.mount = mountId' /\ q.run = effectRuns'
       /\ (settled' # NoSettlement) => (pending' = pending \ {settled'.req})
       /\ \A q1, q2 \in pending' :
                (q1.mount = q2.mount /\ q1.run = q2.run) => q1 = q2]_vars

C14_Witness ==
    /\ Failed(settled)
    /\ settled.live
    /\ mounted
    /\ session
    /\ View.kind = "Error"
    /\ pending = {}

----------------------------------------------------------------------------
(* C15 *)

\* C15: a request that resolves with a url after the instance that issued
\* it was unmounted does not change the browser location
C15_StaleUrlNotApplied ==
    [][(ResolvedWithUrl(settled') /\ ~settled'.live) => href' = href]_vars

----------------------------------------------------------------------------
(* C16 *)

\* C16: an execution of the checkout effect with an authenticated session
\* issues a request exactly when the configuration value current at that
\* execution is a non-empty key, and otherwise ends with the configuration
\* message
C16_ProviderFromCurrentConfig ==
    (EffectRan /\ session) =>
        IF env.t = "string" /\ env.v # ""
        THEN IssuedNow # {}
        ELSE IssuedNow = {} /\ error = Str(ProviderMessage)

----------------------------------------------------------------------------
(* C17 *)

\* C17: the SEO effect runs once when an instance is mounted, whatever the
\* session and the provider flag are, and at no other step: a mounted
\* instance has run it exactly once, the document changes only in a mount
\* step, and the mount step changes the browser location, the route and the
\* view state only as the checkout effect does
C17_SeoEffectOncePerMount ==
    [][/\ mounted' => seoRuns' = 1
       /\ (~mounted /\ mounted') =>
                /\ doc' = SeoEffect(doc)
                /\ href' = href
                /\ (session /\ isStripeAvailable) =>
                        (isLoading' /\ error' = Null /\ route' = route)
       /\ (mounted /\ mounted') => (seoRuns' = seoRuns /\ doc' = doc)
       /\ (doc' # doc) => (~mounted /\ mounted')]_vars

C17_Witness ==
    /\ mounted
    /\ ~session
    /\ ~isStripeAvailable
    /\ effectRuns = 2
    /\ seoRuns = 1
    /\ doc.title = PageTitle
    /\ SchemaScripts(doc) = 1

----------------------------------------------------------------------------
(* C18 *)

\* C18: whatever the document holds (description meta tag, head, prior
\* schema node, each present or absent), the SEO effect calls no method on a
\* missing node; an absent description meta tag stays absent, a present one
\* gets the page description, and without a head no schema node is touched
C18_SeoEffectToleratesMissingNodes ==
    [][(~mounted /\ mounted') =>
            /\ \A i \in 1..Len(SeoReceivers(doc)) : SeoReceivers(doc)[i] # Null
            /\ doc'.title = PageTitle
            /\ (doc.meta = Null) => (doc'.meta = Null)
            /\ (doc.meta # Null) => (doc'.meta = Str(PageDescription))
            /\ (~doc.hasHead) =>
                    (doc'.headKids = doc.headKids /\ doc'.bodyKids = doc.bodyKids)]_vars

C18_Witness ==
    /\ mounted
    /\ doc.meta = Null
    /\ ~doc.hasHead
    /\ doc.title = PageTitle
    /\ doc.bodyKids = <<"script">>

----------------------------------------------------------------------------
(* C19 *)

\* C19: in a mounted instance isLoading is true exactly when error is null;
\* within a mount a step that changes error leaves isLoading false, and no
\* step sets isLoading back to true or error back to null
C19_LoadingIffNoError ==
    [][/\ mounted' => (isLoading' <=> (error' = Null))
       /\ SameMount =>
            /\ (error' # error) => ~isLoading'
            /\ ~isLoading => ~isLoading'
            /\ (error # Null) => (error' # Null)]_vars

C19_Witness ==
    /\ mounted
    /\ settled.live
    /\ ~isLoading
    /\ error = Str("")

----------------------------------------------------------------------------
(* C20 *)

\* C20: the browser location changes only when a pending request resolves
\* with a checkout url, and a request is only ever issued by an execution
\* of the effect that found the session authenticated and the provider
\* available; no execution of the effect changes the location, and an
\* execution stopped by the access guard changes neither isLoading nor error
C20_LocationOnlyFromGuardedRequest ==
    [][/\ (href' # href) =>
            /\ ResolvedWithUrl(settled')
            /\ settled'.req \in pending
            /\ href' = settled'.outcome.value.url.v
            /\ isStripeAvailable
       /\ (pending' \ pending # {}) => (session' /\ isStripeAvailable')
       /\ (effectLog' # <<>>) => (href' = href)
       /\ (effectLog' # <<>> /\ ~session') =>
            (isLoading' = isLoading /\ error' = error /\ pending' = pending)]_vars

C20_Witness ==
    /\ ResolvedWithUrl(settled)
    /\ href = "https://pay.example/session/abc"
    /\ isStripeAvailable
    /\ ~session
    /\ mounted
    /\ sawUnauth

====
